---- MODULE Spec2Model ----
(***************************************************************************)
(* Offline download pre-flight of the Quran reader: the storage permission *)
(* service (storage-permission-service.ts), the download manager component *)
(* (OfflineDownloadManager.tsx) and the storage permission dialog.         *)
(*                                                                         *)
(* Four specifications share the operators:                                *)
(*   SvcSpec  one caller running canDownloadWithCleanup against a host     *)
(*            drawn from SvcHosts, with requestPersistentStorage calls at  *)
(*            any moment;                                                  *)
(*   EstSpec  estimateMultipleChaptersSize applied to a chapter list;      *)
(*   RegSpec  loadDownloadedChapters on any persisted list, with payloads  *)
(*            evicted out-of-band;                                         *)
(*   Spec     the component: user actions, concurrent handleDownload       *)
(*            invocations and the permission dialog.                       *)
(***************************************************************************)
EXTENDS Integers, Sequences, FiniteSets, TLC

VARIABLES
    \* ---- host (browser) state
    supported,       \* navigator.storage is present
    quota,           \* estimate().quota (Undefined when the field is absent)
    usage,           \* estimate().usage (Undefined when the field is absent)
    persisted,       \* navigator.storage.persisted()
    hasCaches,       \* 'caches' in window
    caches,          \* caches.keys(): sequence of cache names
    localStorage,    \* localStorage: key -> value
    \* ---- service harness (SvcSpec)
    svc,             \* the frame of the canDownloadWithCleanup call
    req,             \* the latest requestPersistentStorage call of the harness
    \* ---- estimation harness (EstSpec)
    estim,           \* a chapter list and the estimate computed for it
    \* ---- registry harness (RegSpec)
    loads,           \* the loadDownloadedChapters runs of the harness, in order
    \* ---- component state (Spec)
    selectedChapters,
    estimatedDownloadSize,
    isOnline,
    isDownloading,
    storagePermissionOpen,
    overallProgress,
    downloadProgress,
    downloadedChapters,
    registry,        \* offline storage: the persisted list of downloaded chapter ids
    stored,          \* offline storage: ids whose stored payload is present and valid
    calls            \* handleDownload invocations, in order of invocation

hostVars == <<supported, quota, usage, persisted, hasCaches, caches, localStorage>>
uiVars == <<selectedChapters, estimatedDownloadSize, isOnline, isDownloading,
            storagePermissionOpen, overallProgress, downloadProgress,
            downloadedChapters, registry, stored, calls>>
uiVarsButCalls == <<selectedChapters, estimatedDownloadSize, isOnline, isDownloading,
                    storagePermissionOpen, overallProgress, downloadProgress,
                    downloadedChapters, registry, stored>>
harnessVars == <<svc, req, estim, loads>>
vars == <<hostVars, harnessVars, uiVars>>

----------------------------------------------------------------------------
(* Bounds of the model *)

MaxCalls == 2
\* RegSpec: length of the persisted list, number of loads
MaxRegistry == 3
MaxLoads == 2
\* EstSpec: length of the chapter list
MaxItems == 3

----------------------------------------------------------------------------
(* Constants of the program *)

averageBytesPerVerse == 500
chapterMetadata == 1000
CacheFreedEstimate == 1024 * 1024
KeyFreedEstimate == 1024
MB == 1024 * 1024
\* estimate() may leave quota or usage out; `x || 0` then yields 0
Undefined == -1

Max(a, b) == IF a >= b THEN a ELSE b

----------------------------------------------------------------------------
(* Names: strings as sequences of characters, so that includes() is computed *)

Includes(s, sub) ==
    \E i \in 1..(Len(s) - Len(sub) + 1) : SubSeq(s, i, i + Len(sub) - 1) = sub

StrOld == <<"o", "l", "d">>
StrTemp == <<"t", "e", "m", "p">>
StrTempDash == <<"t", "e", "m", "p", "-">>
StrCacheDash == <<"c", "a", "c", "h", "e", "-">>

CacheOldV1 == <<"o", "l", "d", "-", "v", "1">>
CacheTemp == <<"i", "m", "g", "-", "t", "e", "m", "p">>
CacheGold == <<"g", "o", "l", "d">>
CacheQuran == <<"q", "u", "r", "a", "n">>

KeyTempA == <<"t", "e", "m", "p", "-", "a">>
KeyCacheX == <<"c", "a", "c", "h", "e", "-", "x">>
KeyTemplate == <<"t", "e", "m", "p", "l", "a", "t", "e">>
KeyTheme == <<"t", "h", "e", "m", "e">>

\* cacheName.includes('old') || cacheName.includes('temp')
IsStaleCache(cacheName) == Includes(cacheName, StrOld) \/ Includes(cacheName, StrTemp)

\* key.includes('temp-') || key.includes('cache-')
IsTempKey(key) == Includes(key, StrTempDash) \/ Includes(key, StrCacheDash)

\* What the host accounts for an entry: the bytes its deletion gives back.
CacheBytes(cacheName) ==
    CASE cacheName = CacheOldV1 -> 3 * MB
      [] cacheName = CacheTemp -> MB
      [] cacheName = CacheGold -> 2 * MB
      [] OTHER -> 4 * MB

KeyBytes(key) == IF key = KeyCacheX THEN 5000 ELSE 100

----------------------------------------------------------------------------
(* storage-permission-service.ts *)

ZeroStatus == [threw |-> FALSE, persistent |-> FALSE, quota |-> 0, usage |-> 0,
               available |-> 0]

OrZero(x) == IF x = Undefined THEN 0 ELSE x

\* Mutant: only a rejected estimate() is caught; a rejected persisted() keeps the
\* estimate and reports persistent = false.
GetStoragePermissionStatus_PersistedUncaught(in, q, u, p) ==
    IF in.supported /\ in.estimateOk
    THEN [threw |-> FALSE,
          persistent |-> in.persistedOk /\ p,
          quota |-> OrZero(q),
          usage |-> OrZero(u),
          available |-> OrZero(q) - OrZero(u)]
    ELSE ZeroStatus

\* in: what the host does during this call
\*   supported   navigator.storage exists (else the access throws a TypeError)
\*   estimateOk  estimate() resolves, persistedOk  persisted() resolves
GetStoragePermissionStatus(in, q, u, p) ==
    IF in.supported /\ in.estimateOk /\ in.persistedOk
    THEN [threw |-> FALSE,
          persistent |-> p,
          quota |-> OrZero(q),
          usage |-> OrZero(u),
          available |-> OrZero(q) - OrZero(u)]
    ELSE ZeroStatus

NoCheck == [hasEnoughSpace |-> FALSE, availableBytes |-> 0, requiredBytes |-> 0,
            shortageBytes |-> 0]

\* Mutant: a strict comparison, `available > requiredBytes`.
CheckAvailableSpace_Strict(status, requiredBytes) ==
    LET hasEnoughSpace == status.available > requiredBytes
    IN [hasEnoughSpace |-> hasEnoughSpace,
        availableBytes |-> status.available,
        requiredBytes |-> requiredBytes,
        shortageBytes |-> IF hasEnoughSpace THEN 0
                           ELSE requiredBytes - status.available]

\* status: the result of the awaited getStoragePermissionStatus()
CheckAvailableSpace(status, requiredBytes) ==
    IF status.threw
    THEN [hasEnoughSpace |-> FALSE, availableBytes |-> 0,
          requiredBytes |-> requiredBytes, shortageBytes |-> requiredBytes]
    ELSE LET hasEnoughSpace == status.available >= requiredBytes
         IN [hasEnoughSpace |-> hasEnoughSpace,
             availableBytes |-> status.available,
             requiredBytes |-> requiredBytes,
             shortageBytes |-> IF hasEnoughSpace THEN 0
                                ELSE requiredBytes - status.available]

KeyPermissionGranted == <<"s", "t", "o", "r", "a", "g", "e", "-", "p", "e", "r", "m",
                          "i", "s", "s", "i", "o", "n", "-", "g", "r", "a", "n", "t",
                          "e", "d">>
KeyPermissionDate == <<"s", "t", "o", "r", "a", "g", "e", "-", "p", "e", "r", "m", "i",
                       "s", "s", "i", "o", "n", "-", "d", "a", "t", "e">>

SetItem(ls, key, value) ==
    [k \in DOMAIN ls \cup {key} |-> IF k = key THEN value ELSE ls[k]]

\* Mutant: the current state is not looked at, persist() is always called.
RequestPersistentStorage_NoShortCircuit(in, isPersistent, ls) ==
    IF ~in.supported \/ ~in.persistedOk
    THEN [granted |-> FALSE, prompted |-> FALSE, localStorage |-> ls]
    ELSE IF ~in.persistOk
    THEN [granted |-> FALSE, prompted |-> TRUE, localStorage |-> ls]
    ELSE IF in.grant
    THEN [granted |-> TRUE, prompted |-> TRUE,
          localStorage |-> SetItem(SetItem(ls, KeyPermissionGranted, "true"),
                                   KeyPermissionDate, "date")]
    ELSE [granted |-> FALSE, prompted |-> TRUE,
          localStorage |-> SetItem(ls, KeyPermissionGranted, "false")]

\* in: what the host does during the call: supported, persistedOk (persisted()
\* resolves), persistOk (persist() resolves), grant (what persist() answers)
RequestPersistentStorage(in, isPersistent, ls) ==
    IF ~in.supported \/ ~in.persistedOk
    THEN [granted |-> FALSE, prompted |-> FALSE, localStorage |-> ls]
    ELSE IF isPersistent
    THEN [granted |-> TRUE, prompted |-> FALSE, localStorage |-> ls]
    ELSE IF ~in.persistOk
    THEN [granted |-> FALSE, prompted |-> TRUE, localStorage |-> ls]
    ELSE IF in.grant
    THEN [granted |-> TRUE, prompted |-> TRUE,
          localStorage |-> SetItem(SetItem(ls, KeyPermissionGranted, "true"),
                                   KeyPermissionDate, "date")]
    ELSE [granted |-> FALSE, prompted |-> TRUE,
          localStorage |-> SetItem(ls, KeyPermissionGranted, "false")]

RequestInputs == [supported : {supported}, persistedOk : BOOLEAN, persistOk : BOOLEAN,
                  grant : BOOLEAN]

estimateChapterSize(versesCount) ==
    (versesCount * averageBytesPerVerse) + chapterMetadata

RECURSIVE SumVerses(_)
SumVerses(chapters) ==
    IF chapters = <<>> THEN 0
    ELSE chapters[1].verses_count + SumVerses(Tail(chapters))

\* Mutant: the per-chapter metadata is counted once for the whole list.
estimateMultipleChaptersSize_SharedOverhead(chapters) ==
    IF chapters = <<>> THEN 0
    ELSE SumVerses(chapters) * averageBytesPerVerse + chapterMetadata

RECURSIVE estimateMultipleChaptersSize(_)
estimateMultipleChaptersSize(chapters) ==
    IF chapters = <<>> THEN 0
    ELSE estimateMultipleChaptersSize(SubSeq(chapters, 1, Len(chapters) - 1))
         + estimateChapterSize(chapters[Len(chapters)].verses_count)

\* fail: 0 nothing rejects; i in 1..Len(names) caches.delete(names[i]) rejects;
\*       Len(names)+1 caches.keys() rejects.
\* The result: the number returned, what is left and what was deleted.
CleanupOldData(withCaches, names, keys, fail) ==
    LET staleIdx == IF withCaches THEN {i \in 1..Len(names) : IsStaleCache(names[i])}
                    ELSE {}
        keysReject == withCaches /\ fail = Len(names) + 1
        threw == keysReject \/ fail \in staleIdx
        gone == IF keysReject THEN {}
                ELSE {i \in staleIdx : fail \in staleIdx => i < fail}
        keysToRemove == IF threw THEN {} ELSE {k \in keys : IsTempKey(k)}
        left == [j \in 1..Len(names) |-> j \notin gone]
        RECURSIVE Keep(_)
        Keep(j) == IF j > Len(names) THEN <<>>
                   ELSE (IF left[j] THEN <<names[j]>> ELSE <<>>) \o Keep(j + 1)
    IN [freedBytes |-> IF threw THEN 0
                       ELSE Cardinality(gone) * CacheFreedEstimate
                            + Cardinality(keysToRemove) * KeyFreedEstimate,
        caches |-> Keep(1),
        keys |-> keys \ keysToRemove,
        deletedCaches |-> {names[i] : i \in gone},
        deletedKeys |-> keysToRemove,
        threw |-> threw]

RECURSIVE SumCacheBytes(_)
SumCacheBytes(S) ==
    IF S = {} THEN 0
    ELSE LET x == CHOOSE y \in S : TRUE IN CacheBytes(x) + SumCacheBytes(S \ {x})

RECURSIVE SumKeyBytes(_)
SumKeyBytes(S) ==
    IF S = {} THEN 0
    ELSE LET x == CHOOSE y \in S : TRUE IN KeyBytes(x) + SumKeyBytes(S \ {x})

\* The bytes the host gets back for what a cleanup pass deleted.
Reclaimed(r) == SumCacheBytes(r.deletedCaches) + SumKeyBytes(r.deletedKeys)

UsageAfter(u, r) == IF u = Undefined THEN Undefined ELSE u - Reclaimed(r)

\* ---- canDownloadWithCleanup, one operator per stretch between two awaits.
\* A frame holds the call's locals; probes lists the probes its space checks
\* made (what the host did, what the probe returned), cleanups counts its
\* cleanupOldData calls and reclaimed is what those gave back to the host.

NoResult == [canDownload |-> FALSE, needsCleanup |-> FALSE, availableAfterCleanup |-> 0]

IdleFrame == [pc |-> "idle", requiredBytes |-> 0, probes |-> <<>>,
              spaceCheck |-> NoCheck, freedBytes |-> 0, newSpaceCheck |-> NoCheck,
              result |-> NoResult, cleanups |-> 0, reclaimed |-> 0,
              deleted |-> {}]

CdcBegin(requiredBytes) ==
    [IdleFrame EXCEPT !.pc = "check", !.requiredBytes = requiredBytes]

\* Mutant: the early return is missing, cleanup always runs.
CdcCheck_NoEarlyReturn(f, in, status) ==
    [f EXCEPT !.pc = "cleanup",
              !.spaceCheck = CheckAvailableSpace(status, f.requiredBytes),
              !.probes = Append(@, [in |-> in, status |-> status])]

\* const spaceCheck = await this.checkAvailableSpace(requiredBytes); if (...) return
CdcCheck(f, in, status) ==
    LET spaceCheck == CheckAvailableSpace(status, f.requiredBytes)
        g == [f EXCEPT !.spaceCheck = spaceCheck,
                       !.probes = Append(@, [in |-> in, status |-> status])]
    IN IF spaceCheck.hasEnoughSpace
       THEN [g EXCEPT !.pc = "done",
                      !.result = [canDownload |-> TRUE,
                                  needsCleanup |-> FALSE,
                                  availableAfterCleanup |-> spaceCheck.availableBytes]]
       ELSE [g EXCEPT !.pc = "cleanup"]

\* const freedBytes = await this.cleanupOldData();
CdcCleanup(f, r) ==
    [f EXCEPT !.pc = "recheck",
              !.freedBytes = r.freedBytes,
              !.cleanups = @ + 1,
              !.reclaimed = @ + Reclaimed(r),
              !.deleted = @ \cup r.deletedCaches \cup r.deletedKeys]

\* Mutant: a retry loop, cleanup runs again while the space is still short.
CdcRecheck_Retry(f, in, status) ==
    LET newSpaceCheck == CheckAvailableSpace(status, f.requiredBytes)
    IN [f EXCEPT !.pc = IF newSpaceCheck.hasEnoughSpace THEN "done" ELSE "cleanup",
                 !.newSpaceCheck = newSpaceCheck,
                 !.probes = Append(@, [in |-> in, status |-> status]),
                 !.result = [canDownload |-> newSpaceCheck.hasEnoughSpace,
                             needsCleanup |-> TRUE,
                             availableAfterCleanup |-> newSpaceCheck.availableBytes]]

\* Mutant: the decision is read from the check made before cleanup.
CdcRecheck_Stale(f, in, status) ==
    LET newSpaceCheck == CheckAvailableSpace(status, f.requiredBytes)
    IN [f EXCEPT !.pc = "done",
                 !.newSpaceCheck = newSpaceCheck,
                 !.probes = Append(@, [in |-> in, status |-> status]),
                 !.result = [canDownload |-> f.spaceCheck.hasEnoughSpace,
                             needsCleanup |-> TRUE,
                             availableAfterCleanup |-> newSpaceCheck.availableBytes]]

\* Mutant: a freedBytes estimate that covers the shortage is taken as enough.
CdcRecheck_TrustsEstimate(f, in, status) ==
    LET newSpaceCheck == CheckAvailableSpace(status, f.requiredBytes)
    IN [f EXCEPT !.pc = "done",
                 !.newSpaceCheck = newSpaceCheck,
                 !.probes = Append(@, [in |-> in, status |-> status]),
                 !.result = [canDownload |-> (newSpaceCheck.hasEnoughSpace
                                              \/ f.freedBytes >= f.spaceCheck.shortageBytes),
                             needsCleanup |-> TRUE,
                             availableAfterCleanup |-> newSpaceCheck.availableBytes]]

\* const newSpaceCheck = await this.checkAvailableSpace(requiredBytes); return {...}
CdcRecheck(f, in, status) ==
    LET newSpaceCheck == CheckAvailableSpace(status, f.requiredBytes)
    IN [f EXCEPT !.pc = "done",
                 !.newSpaceCheck = newSpaceCheck,
                 !.probes = Append(@, [in |-> in, status |-> status]),
                 !.result = [canDownload |-> newSpaceCheck.hasEnoughSpace,
                             needsCleanup |-> TRUE,
                             availableAfterCleanup |-> newSpaceCheck.availableBytes]]

\* What the host may do during one probe.
ProbeInputs == [supported : {supported}, estimateOk : BOOLEAN, persistedOk : BOOLEAN]

Probe(in) == GetStoragePermissionStatus(in, quota, usage, persisted)

\* The host after a cleanup pass.
HostCleaned(r) ==
    /\ caches' = r.caches
    /\ localStorage' = [k \in r.keys |-> localStorage[k]]
    /\ usage' = UsageAfter(usage, r)
    /\ UNCHANGED <<supported, quota, persisted, hasCaches>>

----------------------------------------------------------------------------
(* SvcSpec: one caller of canDownloadWithCleanup *)

Host(s, q, u, p, hc, c, ls) ==
    [supported |-> s, quota |-> q, usage |-> u, persisted |-> p, hasCaches |-> hc,
     caches |-> c, localStorage |-> ls]

SvcHosts ==
    { Host(TRUE, 10 * MB, 8 * MB, TRUE, TRUE, <<CacheQuran, CacheOldV1>>, {KeyTheme}),
      Host(TRUE, 10 * MB, 9 * MB, FALSE, TRUE, <<CacheTemp, CacheGold, CacheQuran>>,
           {KeyTempA, KeyCacheX, KeyTemplate}),
      Host(FALSE, 10 * MB, 8 * MB, FALSE, TRUE, <<CacheOldV1>>, {KeyTempA}),
      Host(TRUE, 5 * MB, 7 * MB, TRUE, TRUE, <<CacheOldV1, CacheQuran>>, {}),
      Host(TRUE, Undefined, Undefined, FALSE, FALSE, <<CacheTemp>>, {KeyCacheX}),
      Host(TRUE, 10 * MB, 0, TRUE, TRUE, <<>>, {}),
      Host(TRUE, 10 * MB, 10 * MB - 4000, TRUE, TRUE, <<>>, {KeyTempA}) }

RequiredChoices == {0, estimateChapterSize(7), 2 * MB, 4 * MB, 15 * MB}

NoProgress == [chapterId |-> 0, progress |-> 0, status |-> "null"]

UiIdle ==
    /\ selectedChapters = <<>>
    /\ estimatedDownloadSize = 0
    /\ isOnline = TRUE
    /\ isDownloading = FALSE
    /\ storagePermissionOpen = FALSE
    /\ overallProgress = 0
    /\ downloadProgress = NoProgress
    /\ downloadedChapters = <<>>
    /\ registry = <<>>
    /\ stored = {}
    /\ calls = <<>>

\* No call made yet by any harness.
NoRequest == [called |-> FALSE,
              in |-> [supported |-> FALSE, persistedOk |-> FALSE, persistOk |-> FALSE,
                      grant |-> FALSE],
              wasPersistent |-> FALSE, granted |-> FALSE, prompted |-> FALSE,
              changed |-> FALSE]

NoEstimate == [chapters |-> <<>>, applied |-> FALSE, total |-> 0]

HarnessIdle ==
    /\ svc = IdleFrame
    /\ req = NoRequest
    /\ estim = NoEstimate
    /\ loads = <<>>

HostIs(h) ==
    /\ supported = h.supported
    /\ quota = h.quota
    /\ usage = h.usage
    /\ persisted = h.persisted
    /\ hasCaches = h.hasCaches
    /\ caches = h.caches
    /\ localStorage = [k \in h.localStorage |-> "x"]

SvcInit ==
    /\ \E h \in SvcHosts : HostIs(h)
    /\ HarnessIdle
    /\ UiIdle

SvcCall ==
    /\ svc.pc \in {"idle", "done"}
    /\ \E requiredBytes \in RequiredChoices : svc' = CdcBegin(requiredBytes)
    /\ UNCHANGED <<hostVars, uiVars, req, estim, loads>>

SvcCheck ==
    /\ svc.pc = "check"
    /\ \E in \in ProbeInputs : svc' = CdcCheck(svc, in, Probe(in))
    /\ UNCHANGED <<hostVars, uiVars, req, estim, loads>>

SvcCleanup ==
    /\ svc.pc = "cleanup"
    /\ \E fail \in 0..(Len(caches) + 1) :
          LET r == CleanupOldData(hasCaches, caches, DOMAIN localStorage, fail)
          IN /\ svc' = CdcCleanup(svc, r)
             /\ HostCleaned(r)
    /\ UNCHANGED <<uiVars, req, estim, loads>>

SvcRecheck ==
    /\ svc.pc = "recheck"
    /\ \E in \in ProbeInputs : svc' = CdcRecheck(svc, in, Probe(in))
    /\ UNCHANGED <<hostVars, uiVars, req, estim, loads>>

\* A requestPersistentStorage call, at any moment. req keeps what the host did
\* (in), what persisted() had to answer, the value returned, whether persist()
\* was called and whether localStorage was changed.
SvcRequest ==
    /\ \E in \in RequestInputs :
          LET r == RequestPersistentStorage(in, persisted, localStorage)
          IN /\ req' = [called |-> TRUE, in |-> in, wasPersistent |-> persisted,
                        granted |-> r.granted, prompted |-> r.prompted,
                        changed |-> (r.localStorage # localStorage)]
             /\ localStorage' = r.localStorage
             /\ persisted' = (persisted \/ (r.prompted /\ r.granted))
    /\ UNCHANGED <<supported, quota, usage, hasCaches, caches, svc, estim, loads,
                   uiVars>>

SvcNext == SvcCall \/ SvcCheck \/ SvcCleanup \/ SvcRecheck \/ SvcRequest

SvcSpec == SvcInit /\ [][SvcNext]_vars

----------------------------------------------------------------------------
(* Claims about the service, checked under SvcSpec *)

\* The k-th space check of a frame and the probe it awaited.
CheckOf(f, k) == IF k = 1 THEN f.spaceCheck ELSE f.newSpaceCheck

ProbeFailed(p) == ~p.in.supported \/ ~p.in.estimateOk \/ ~p.in.persistedOk

\* C6: every result of checkAvailableSpace, whatever the probe returned (a failed
\* probe included), has shortageBytes = max(0, requiredBytes - available) for the
\* probe's available, and hasEnoughSpace exactly when shortageBytes is 0.
C6_ShortageAndSufficiency ==
    \A k \in 1..Len(svc.probes) :
        LET sc == CheckOf(svc, k)
            available == svc.probes[k].status.available
        IN /\ sc.requiredBytes = svc.requiredBytes
           /\ sc.shortageBytes = Max(0, svc.requiredBytes - available)
           /\ sc.hasEnoughSpace <=> (sc.shortageBytes = 0)

\* A call whose first check saw usage above quota (a shortage larger than the
\* request) and whose second check ran on a failed probe.
C6_Witness ==
    /\ svc.pc = "done"
    /\ Len(svc.probes) = 2
    /\ svc.probes[1].status.available < 0
    /\ svc.spaceCheck.shortageBytes > svc.requiredBytes
    /\ ProbeFailed(svc.probes[2])
    /\ svc.newSpaceCheck.shortageBytes = svc.requiredBytes
    /\ svc.requiredBytes > 0

\* C7: when the initial check finds available >= requiredBytes, the call returns
\* canDownload = true, needsCleanup = false straight away: it runs no cleanup and
\* deletes no cache bucket and no key.
C7_NoCleanupWhenEnough ==
    (Len(svc.probes) >= 1 /\ svc.probes[1].status.available >= svc.requiredBytes)
    => /\ svc.pc = "done"
       /\ svc.result.canDownload
       /\ ~svc.result.needsCleanup
       /\ svc.result.availableAfterCleanup = svc.probes[1].status.available
       /\ svc.cleanups = 0
       /\ svc.deleted = {}
       /\ Len(svc.probes) = 1

\* Enough space at the first check while stale caches and temporary keys exist.
C7_Witness ==
    /\ svc.pc = "done"
    /\ svc.probes[1].status.available >= svc.requiredBytes
    /\ svc.requiredBytes > 0
    /\ \E i \in 1..Len(caches) : IsStaleCache(caches[i])
    /\ \E k \in DOMAIN localStorage : IsTempKey(k)

\* C8: a call runs at most one cleanup pass and at most two space checks; when
\* the initial check fails it returns after exactly one cleanup and exactly one
\* re-check, and a call that has not returned can always take its next step.
C8_OneCleanupOneRecheck ==
    /\ svc.cleanups <= 1
    /\ Len(svc.probes) <= 2
    /\ (svc.pc = "done" /\ ~svc.spaceCheck.hasEnoughSpace)
          => (svc.cleanups = 1 /\ Len(svc.probes) = 2)
    /\ svc.pc = "recheck" => (svc.cleanups = 1 /\ Len(svc.probes) = 1)
    /\ svc.pc \in {"check", "cleanup", "recheck"}
          => ENABLED (SvcCheck \/ SvcCleanup \/ SvcRecheck)

\* The call returned canDownload = false although stale entries are left: a
\* retry would have had something to delete.
C8_Witness ==
    /\ svc.pc = "done"
    /\ ~svc.spaceCheck.hasEnoughSpace
    /\ ~svc.result.canDownload
    /\ svc.cleanups = 1
    /\ \E i \in 1..Len(caches) : IsStaleCache(caches[i])

\* A probe that reported the host's own quota and usage (not the zeroed fallback).
ProbeReported(p) == ~ProbeFailed(p) /\ quota # Undefined /\ usage # Undefined

\* C9 as stated: whenever the initial check is insufficient and the cleanup gives
\* back at least the shortage, the result is canDownload = true, needsCleanup = true.
C9_Original ==
    (svc.pc = "done" /\ ~svc.spaceCheck.hasEnoughSpace
        /\ svc.reclaimed >= svc.spaceCheck.shortageBytes)
    => (svc.result.canDownload /\ svc.result.needsCleanup)

\* C9 (amended): when the initial check is insufficient, the cleanup gives back at
\* least the shortage and both space checks ran on a probe that reported the
\* host's quota and usage, the result is canDownload = true, needsCleanup = true.
C9_CleanupCoversShortage ==
    (svc.pc = "done" /\ ~svc.spaceCheck.hasEnoughSpace
        /\ svc.reclaimed >= svc.spaceCheck.shortageBytes
        /\ \A k \in 1..Len(svc.probes) : ProbeReported(svc.probes[k]))
    => (svc.result.canDownload /\ svc.result.needsCleanup)

\* Scenario B: quota 10MB, used 8MB, a request of 4MB, a cleanup that gave back 3MB.
C9_Witness ==
    /\ svc.pc = "done"
    /\ svc.requiredBytes = 4 * MB
    /\ svc.probes[1].status.quota = 10 * MB
    /\ svc.probes[1].status.usage = 8 * MB
    /\ svc.reclaimed = 3 * MB
    /\ svc.probes[2].status.usage = 5 * MB
    /\ svc.result = [canDownload |-> TRUE, needsCleanup |-> TRUE,
                     availableAfterCleanup |-> 5 * MB]

\* C10: a probe made while the storage capability is absent, or while estimate()
\* or persisted() rejects, returns quota = 0, usage = 0, available = 0,
\* persistent = false; no probe propagates an error.
C10_ZeroedSnapshotOnFailure ==
    \A k \in 1..Len(svc.probes) :
        LET p == svc.probes[k]
        IN /\ ~p.status.threw
           /\ ProbeFailed(p)
                => /\ p.status.quota = 0
                   /\ p.status.usage = 0
                   /\ p.status.available = 0
                   /\ p.status.persistent = FALSE

\* persisted() rejected on a host that has quota, usage and the durable grant;
\* and the capability absent altogether.
C10_Witness ==
    \E k \in 1..Len(svc.probes) :
        LET p == svc.probes[k]
        IN /\ p.status.quota = 0 /\ p.status.available = 0 /\ ~p.status.persistent
           /\ \/ /\ p.in.supported /\ p.in.estimateOk /\ ~p.in.persistedOk
                 /\ persisted /\ quota > 0 /\ usage > 0
              \/ ~p.in.supported /\ quota > 0

\* C11: on a host without the storage capability, every space check reports
\* hasEnoughSpace = false whatever the bytes required, every probe reports
\* persistent = false, requestPersistentStorage returns false, and no call throws.
C11_DegradedWhenAbsent ==
    /\ \A k \in 1..Len(svc.probes) :
          LET p == svc.probes[k]
          IN ~p.in.supported
                => /\ ~p.status.threw
                   /\ ~p.status.persistent
                   /\ ~CheckOf(svc, k).hasEnoughSpace
    /\ (req.called /\ ~req.in.supported) => (~req.granted /\ ~req.prompted)

CacheNames == {CacheOldV1, CacheTemp, CacheGold, CacheQuran}

StaleCachesLeft == {i \in 1..Len(caches) : IsStaleCache(caches[i])}

\* C12: a cleanup pass in which one entry fails still handles every other entry:
\* after the pass no temporary key is left, at most one stale cache bucket (the
\* failed one) is left once the buckets were enumerated, and what was deleted is
\* counted in freedBytes.
C12_PerEntryIsolation ==
    svc.cleanups = 1
    => /\ \A k \in DOMAIN localStorage : ~IsTempKey(k)
       /\ (svc.deleted \cap CacheNames # {}) => Cardinality(StaleCachesLeft) <= 1
       /\ svc.deleted # {} => svc.freedBytes > 0

\* C13: a requestPersistentStorage call made while the host reports durable
\* storage as granted returns true, does not call persist() and leaves
\* localStorage as it was; no call made while storage is persistent prompts.
C13_NoPromptOncePersistent ==
    /\ (req.called /\ req.wasPersistent) => ~req.prompted
    /\ (req.called /\ req.wasPersistent /\ req.in.supported /\ req.in.persistedOk)
          => (req.granted /\ ~req.changed /\ persisted)

\* A repeated call after a grant obtained through a prompt (the record of that
\* grant is in localStorage).
C13_Witness ==
    /\ req.called /\ req.wasPersistent /\ req.in.persistedOk
    /\ req.granted /\ ~req.prompted
    /\ KeyPermissionGranted \in DOMAIN localStorage
    /\ localStorage[KeyPermissionGranted] = "true"

\* C14: after a requestPersistentStorage call whose persist() request was
\* answered, granted or denied, localStorage holds the outcome under
\* 'storage-permission-granted' and a timestamp under 'storage-permission-date'.
C14_OutcomeAndTimestampRecorded ==
    (req.called /\ req.prompted /\ req.in.persistOk)
    => /\ KeyPermissionGranted \in DOMAIN localStorage
       /\ localStorage[KeyPermissionGranted] = (IF req.granted THEN "true" ELSE "false")
       /\ KeyPermissionDate \in DOMAIN localStorage

\* C17: the available bytes handed to callers (a probe's available, a space
\* check's availableBytes, the result's availableAfterCleanup) are never
\* negative, while the shortage is computed from the signed quota - usage.
C17_AvailableNeverNegative ==
    /\ \A k \in 1..Len(svc.probes) :
          LET p == svc.probes[k]
              sc == CheckOf(svc, k)
          IN /\ p.status.available >= 0
             /\ sc.availableBytes >= 0
             /\ ~sc.hasEnoughSpace
                   => sc.shortageBytes = svc.requiredBytes - (p.status.quota - p.status.usage)
    /\ svc.result.availableAfterCleanup >= 0

\* C20: after a cleanup, canDownload is true exactly when the available bytes of
\* the probe made after the cleanup reach requiredBytes, whatever freedBytes the
\* cleanup returned; availableAfterCleanup is that probe's available.
C20_DecisionFromReprobe ==
    (svc.pc = "done" /\ svc.cleanups = 1)
    => /\ Len(svc.probes) = 2
       /\ svc.result.canDownload <=> (svc.probes[2].status.available >= svc.requiredBytes)
       /\ svc.result.availableAfterCleanup = svc.probes[2].status.available

\* The cleanup returned an estimate that covers the shortage, the probe after it
\* answered and still found less than required: canDownload is false.
C20_Witness ==
    /\ svc.pc = "done" /\ svc.cleanups = 1
    /\ svc.freedBytes > 0
    /\ svc.freedBytes >= svc.spaceCheck.shortageBytes
    /\ svc.reclaimed > 0
    /\ ProbeReported(svc.probes[2])
    /\ svc.probes[2].status.available < svc.requiredBytes
    /\ ~svc.result.canDownload

----------------------------------------------------------------------------
(* OfflineDownloadManager.tsx *)

\* chaptersData.chapters
Chapters == <<[id |-> 1, verses_count |-> 7],
              [id |-> 2, verses_count |-> 286]>>

ChapterIds == {Chapters[j].id : j \in 1..Len(Chapters)}

Contains(seq, x) == \E j \in 1..Len(seq) : seq[j] = x

\* The effect at lines 77-88: the estimate for the chapters picked.
EstimateFor(sel) ==
    IF Len(sel) > 0
    THEN estimateMultipleChaptersSize(SelectSeq(Chapters, LAMBDA ch : Contains(sel, ch.id)))
    ELSE 0

NoToast == [title |-> "none", bytes |-> 0, count |-> 0]

\* A handleDownload invocation. sel, online and est are the selectedChapters,
\* isOnline and estimatedDownloadSize of the render whose closure is running.
\* probes counts the storage probes it made, started says it went past the
\* pre-flight (setIsDownloading(true) and the downloadMultipleChapters call),
\* completed and failed are the items the batch has fetched or failed.
NewCall(sel, online, est) ==
    [pc |-> "check", sel |-> sel, online |-> online, est |-> est,
     spaceCheck |-> NoCheck, cdc |-> IdleFrame, storageStatus |-> ZeroStatus,
     probes |-> 0, permProbed |-> FALSE, started |-> FALSE, opened |-> FALSE,
     next |-> 1, completed |-> {}, failed |-> {}, toast |-> NoToast]

\* Mutant: the connectivity test is missing.
PreconditionOutcome_NoOnlineTest(sel, online) ==
    IF Len(sel) = 0 THEN "noSelection" ELSE "ok"

\* checkStorageBeforeDownload, up to its first await
PreconditionOutcome(sel, online) ==
    IF Len(sel) = 0 THEN "noSelection"
    ELSE IF ~online THEN "offline"
    ELSE "ok"

\* handleDownload() up to the first await of checkStorageBeforeDownload
BeginCall(sel, online, est) ==
    LET pre == PreconditionOutcome(sel, online)
        c == NewCall(sel, online, est)
    IN IF pre = "ok" THEN c
       ELSE [c EXCEPT !.pc = "done", !.toast = [NoToast EXCEPT !.title = pre]]

\* const spaceCheck = await checkAvailableSpace(estimatedDownloadSize); if (!...)
CsbdAfterSpaceCheck(c, spaceCheck) ==
    IF spaceCheck.hasEnoughSpace
    THEN [c EXCEPT !.pc = "perm", !.spaceCheck = spaceCheck, !.probes = @ + 1]
    ELSE [c EXCEPT !.pc = "cdc", !.spaceCheck = spaceCheck, !.probes = @ + 1,
                   !.cdc = CdcBegin(c.est)]

\* Mutant: the result of the cleanup is not looked at.
CsbdAfterCleanup_Ignored(c, frame) ==
    [c EXCEPT !.cdc = frame, !.pc = IF frame.pc = "done" THEN "perm" ELSE "cdc"]

\* const cleanupResult = await canDownloadWithCleanup(...); if (!cleanupResult.canDownload)
\* frame: the canDownloadWithCleanup call after its latest step
CsbdAfterCleanup(c, frame) ==
    IF frame.pc # "done" THEN [c EXCEPT !.cdc = frame]
    ELSE IF ~frame.result.canDownload
    THEN [c EXCEPT !.cdc = frame, !.pc = "done", !.opened = TRUE,
                   !.toast = [title |-> "insufficient",
                              bytes |-> c.spaceCheck.shortageBytes,
                              count |-> 0]]
    ELSE [c EXCEPT !.cdc = frame, !.pc = "perm"]

\* Mutant: the pre-flight does not look at the durable-storage grant.
CsbdAfterStatus_NoPermissionTest(c, storageStatus) ==
    [c EXCEPT !.storageStatus = storageStatus, !.permProbed = TRUE,
              !.probes = @ + 1, !.pc = "downloading", !.started = TRUE]

\* const storageStatus = await getStoragePermissionStatus(); if (!persistent) ...;
\* return true; and handleDownload up to the downloadMultipleChapters call
CsbdAfterStatus(c, storageStatus) ==
    IF ~storageStatus.persistent
    THEN [c EXCEPT !.storageStatus = storageStatus, !.permProbed = TRUE,
                   !.probes = @ + 1, !.pc = "done", !.opened = TRUE]
    ELSE [c EXCEPT !.storageStatus = storageStatus, !.permProbed = TRUE,
                   !.probes = @ + 1, !.pc = "downloading", !.started = TRUE]

\* setStoragePermissionOpen(true) of a call that has just aborted
OpenedBy(c) == IF c.opened THEN TRUE ELSE storagePermissionOpen

\* setIsDownloading(true); setOverallProgress(0) of a call that has just started
StartEffects(c) ==
    /\ isDownloading' = (IF c.started THEN TRUE ELSE isDownloading)
    /\ overallProgress' = (IF c.started THEN 0 ELSE overallProgress)

\* Math.round(a / b) for a >= 0, b > 0
RoundDiv(a, b) == (2 * a + b) \div (2 * b)

\* The probes of the component's calls: the host answers them (rejected
\* estimate() and persisted() calls, and hosts without the capability, are
\* explored under SvcSpec).
UiProbeInputs == [supported : {supported}, estimateOk : {TRUE}, persistedOk : {TRUE}]

\* ---- user and host events

\* chapters.filter(chapter => !downloadedChapters.includes(chapter.id)), as ids
Undownloaded ==
    LET rest == SelectSeq(Chapters, LAMBDA ch : ~Contains(downloadedChapters, ch.id))
    IN [j \in 1..Len(rest) |-> rest[j].id]

\* the "select all" button: disabled={isDownloading || undownloadedChapters.length === 0}
HandleSelectAll ==
    /\ ~isDownloading
    /\ Len(Undownloaded) # 0
    /\ selectedChapters' = IF Len(selectedChapters) = Len(Undownloaded)
                           THEN <<>>
                           ELSE Undownloaded
    /\ estimatedDownloadSize' = EstimateFor(selectedChapters')
    /\ UNCHANGED <<hostVars, harnessVars, isOnline, isDownloading, storagePermissionOpen,
                   overallProgress, downloadProgress, downloadedChapters, registry,
                   stored, calls>>

\* window 'online' / 'offline'
ConnectivityChange ==
    /\ isOnline' = ~isOnline
    /\ UNCHANGED <<hostVars, harnessVars, selectedChapters, estimatedDownloadSize,
                   isDownloading, storagePermissionOpen, overallProgress,
                   downloadProgress, downloadedChapters, registry, stored, calls>>

\* ---- handleDownload

\* the download button: disabled={isDownloading || selectedChapters.length === 0 || !isOnline}
ClickDownload ==
    /\ ~isDownloading
    /\ Len(selectedChapters) # 0
    /\ isOnline
    /\ Len(calls) < MaxCalls
    /\ calls' = Append(calls, BeginCall(selectedChapters, isOnline, estimatedDownloadSize))
    /\ UNCHANGED <<hostVars, harnessVars, selectedChapters, estimatedDownloadSize, isOnline,
                   isDownloading, storagePermissionOpen, overallProgress,
                   downloadProgress, downloadedChapters, registry, stored>>

CallSpaceCheck(i) ==
    /\ calls[i].pc = "check"
    /\ \E in \in UiProbeInputs :
          calls' = [calls EXCEPT ![i] =
                        CsbdAfterSpaceCheck(@, CheckAvailableSpace(Probe(in), @.est))]
    /\ UNCHANGED <<hostVars, harnessVars, selectedChapters, estimatedDownloadSize, isOnline,
                   isDownloading, storagePermissionOpen, overallProgress,
                   downloadProgress, downloadedChapters, registry, stored>>

CallCdcCheck(i) ==
    /\ calls[i].pc = "cdc"
    /\ calls[i].cdc.pc \in {"check", "recheck"}
    /\ \E in \in UiProbeInputs :
          LET f == IF calls[i].cdc.pc = "check"
                   THEN CdcCheck(calls[i].cdc, in, Probe(in))
                   ELSE CdcRecheck(calls[i].cdc, in, Probe(in))
              c == CsbdAfterCleanup([calls[i] EXCEPT !.probes = @ + 1], f)
          IN /\ calls' = [calls EXCEPT ![i] = c]
             /\ storagePermissionOpen' = OpenedBy(c)
    /\ UNCHANGED <<hostVars, harnessVars, selectedChapters, estimatedDownloadSize, isOnline,
                   isDownloading, overallProgress, downloadProgress,
                   downloadedChapters, registry, stored>>

CallCdcCleanup(i) ==
    /\ calls[i].pc = "cdc"
    /\ calls[i].cdc.pc = "cleanup"
    /\ \E fail \in 0..(Len(caches) + 1) :
          LET r == CleanupOldData(hasCaches, caches, DOMAIN localStorage, fail)
          IN /\ calls' = [calls EXCEPT ![i] = CsbdAfterCleanup(@, CdcCleanup(@.cdc, r))]
             /\ HostCleaned(r)
    /\ UNCHANGED <<harnessVars, uiVarsButCalls>>

CallPermission(i) ==
    /\ calls[i].pc = "perm"
    /\ \E in \in UiProbeInputs :
          LET c == CsbdAfterStatus(calls[i], Probe(in))
          IN /\ calls' = [calls EXCEPT ![i] = c]
             /\ storagePermissionOpen' = OpenedBy(c)
             /\ StartEffects(c)
    /\ UNCHANGED <<hostVars, harnessVars, selectedChapters, estimatedDownloadSize, isOnline,
                   downloadProgress, downloadedChapters, registry, stored>>

\* ---- offlineStorageService.downloadMultipleChapters and the rest of handleDownload

\* One item of the batch, in input order: fetched and stored (ok) or failed; the
\* batch goes on either way.
DownloadStep(c, ok) ==
    LET id == c.sel[c.next]
    IN [c EXCEPT !.next = @ + 1,
                 !.completed = IF ok THEN @ \cup {id} ELSE @,
                 !.failed = IF ok THEN @ ELSE @ \cup {id}]

RegistryAdd(list, id) == IF Contains(list, id) THEN list ELSE Append(list, id)

\* toast({title: "...", description: `... ${selectedChapters.length} ...`})
SuccessToast(c) == [title |-> "success", bytes |-> 0, count |-> Len(c.sel)]

\* an item of the batch ends; the progress callback of lines 229-232 runs
DownloadItem(i) ==
    /\ calls[i].pc = "downloading"
    /\ calls[i].next <= Len(calls[i].sel)
    /\ \E ok \in BOOLEAN :
          LET c == DownloadStep(calls[i], ok)
              id == calls[i].sel[calls[i].next]
          IN /\ calls' = [calls EXCEPT ![i] = c]
             /\ stored' = (IF ok THEN stored \cup {id} ELSE stored)
             /\ registry' = (IF ok THEN RegistryAdd(registry, id) ELSE registry)
             /\ overallProgress' = RoundDiv(100 * (c.next - 1), Len(c.sel))
             /\ downloadProgress' = [chapterId |-> id, progress |-> 100,
                                     status |-> IF ok THEN "completed" ELSE "error"]
    /\ UNCHANGED <<hostVars, harnessVars, selectedChapters, estimatedDownloadSize, isOnline,
                   isDownloading, storagePermissionOpen, downloadedChapters>>

\* downloadMultipleChapters resolves: the toast and setSelectedChapters([])
DownloadResolves(i) ==
    /\ calls[i].pc = "downloading"
    /\ calls[i].next > Len(calls[i].sel)
    /\ calls' = [calls EXCEPT ![i] = [@ EXCEPT !.pc = "reload",
                                              !.toast = SuccessToast(calls[i])]]
    /\ selectedChapters' = <<>>
    /\ estimatedDownloadSize' = EstimateFor(selectedChapters')
    /\ UNCHANGED <<hostVars, harnessVars, isOnline, isDownloading, storagePermissionOpen,
                   overallProgress, downloadProgress, downloadedChapters, registry,
                   stored>>

\* Mutant: the finally block resets the progress but not the flag.
Finally_FlagKept ==
    /\ isDownloading' = isDownloading
    /\ downloadProgress' = NoProgress
    /\ overallProgress' = 0

\* finally { setIsDownloading(false); setDownloadProgress(null); setOverallProgress(0) }
Finally ==
    /\ isDownloading' = FALSE
    /\ downloadProgress' = NoProgress
    /\ overallProgress' = 0

\* downloadMultipleChapters rejects before its first item (the store cannot be
\* opened): the catch block, then finally
DownloadRejects(i) ==
    /\ calls[i].pc = "downloading"
    /\ calls[i].next = 1
    /\ calls' = [calls EXCEPT ![i] = [@ EXCEPT !.pc = "done",
                                              !.toast = [NoToast EXCEPT !.title = "error"]]]
    /\ Finally
    /\ UNCHANGED <<hostVars, harnessVars, selectedChapters, estimatedDownloadSize, isOnline,
                   storagePermissionOpen, downloadedChapters, registry, stored>>

\* loadDownloadedChapters: the persisted list, checked entry by entry against
\* the stored payloads, rewritten when an entry does not validate
Verified(downloaded) == SelectSeq(downloaded, LAMBDA chapterId : chapterId \in stored)

\* Mutant: the list is never written back.
NeedsRewrite_Never(downloaded, validChapters) == Len(validChapters) > Len(downloaded)

\* if (validChapters.length !== downloaded.length)
NeedsRewrite(downloaded, validChapters) == Len(validChapters) # Len(downloaded)

\* Mutant: the list written back is the list that was loaded.
LoadDownloadedChapters_WritesLoaded ==
    LET downloaded == registry
        validChapters == Verified(downloaded)
    IN /\ registry' = downloaded
       /\ downloadedChapters' = IF NeedsRewrite(downloaded, validChapters)
                                THEN validChapters ELSE downloaded

LoadDownloadedChapters ==
    LET downloaded == registry
        validChapters == Verified(downloaded)
    IN IF NeedsRewrite(downloaded, validChapters)
       THEN /\ registry' = validChapters
            /\ downloadedChapters' = validChapters
       ELSE /\ registry' = registry
            /\ downloadedChapters' = downloaded

\* await loadDownloadedChapters(); await loadStorageInfo(); then finally
CallFinish(i) ==
    /\ calls[i].pc = "reload"
    /\ calls' = [calls EXCEPT ![i] = [@ EXCEPT !.pc = "done"]]
    /\ LoadDownloadedChapters
    /\ Finally
    /\ UNCHANGED <<hostVars, harnessVars, selectedChapters, estimatedDownloadSize, isOnline,
                   storagePermissionOpen, stored>>

\* ---- StoragePermissionDialog.handleRequestPermission

\* the "request permission" button of the open dialog: requestPersistentStorage,
\* and when granted loadStorageStatus and onPermissionGranted, which closes the
\* dialog and, if chapters are selected, calls handleDownload()
HandleRequestPermission ==
    /\ storagePermissionOpen
    /\ \E in \in RequestInputs :
          LET r == RequestPersistentStorage(in, persisted, localStorage)
              again == r.granted /\ Len(selectedChapters) > 0
          IN /\ again => Len(calls) < MaxCalls
             /\ localStorage' = r.localStorage
             /\ persisted' = (persisted \/ (r.prompted /\ r.granted))
             /\ storagePermissionOpen' = (IF r.granted THEN FALSE
                                          ELSE storagePermissionOpen)
             /\ calls' = IF again
                         THEN Append(calls, BeginCall(selectedChapters, isOnline,
                                                      estimatedDownloadSize))
                         ELSE calls
    /\ UNCHANGED <<supported, quota, usage, hasCaches, caches, harnessVars, selectedChapters,
                   estimatedDownloadSize, isOnline, isDownloading, overallProgress,
                   downloadProgress, downloadedChapters, registry, stored>>

----------------------------------------------------------------------------
(* Spec: the component *)
(*                                                                         *)
(* Scope: the selection changes through the "select all" button only (the   *)
(* per-chapter checkbox reaches the same selections one id at a time); the  *)
(* dialog's request handler runs in one step; downloadMultipleChapters may  *)
(* reject only before its first item; the probes made by the component are  *)
(* answered by the host (failing probes are the subject of SvcSpec).        *)

UiHosts ==
    { Host(TRUE, 10 * MB, 10 * MB - 100000, TRUE, TRUE, <<CacheOldV1>>, {KeyTempA}),
      Host(TRUE, 10 * MB, 10 * MB - 100000, TRUE, TRUE, <<CacheQuran>>, {KeyTempA}),
      Host(TRUE, 10 * MB, MB, FALSE, TRUE, <<>>, {}) }

Init ==
    /\ \E h \in UiHosts : HostIs(h)
    /\ HarnessIdle
    /\ UiIdle

Next ==
    \/ HandleSelectAll
    \/ ConnectivityChange
    \/ ClickDownload
    \/ HandleRequestPermission
    \/ \E i \in 1..Len(calls) : CallSpaceCheck(i)
    \/ \E i \in 1..Len(calls) : CallCdcCheck(i)
    \/ \E i \in 1..Len(calls) : CallCdcCleanup(i)
    \/ \E i \in 1..Len(calls) : CallPermission(i)
    \/ \E i \in 1..Len(calls) : DownloadItem(i)
    \/ \E i \in 1..Len(calls) : DownloadResolves(i)
    \/ \E i \in 1..Len(calls) : DownloadRejects(i)
    \/ \E i \in 1..Len(calls) : CallFinish(i)

Spec == Init /\ [][Next]_vars

\* The awaited promises of a started batch settle: each item of
\* downloadMultipleChapters ends, the call resolves once its items are done (or
\* rejects), and the reloads awaited after it complete.
BatchSettles ==
    /\ WF_vars(\E i \in 1..Len(calls) : DownloadItem(i))
    /\ WF_vars(\E i \in 1..Len(calls) : DownloadResolves(i))
    /\ WF_vars(\E i \in 1..Len(calls) : CallFinish(i))

LiveSpec == Spec /\ BatchSettles

----------------------------------------------------------------------------
(* EstSpec: estimateMultipleChaptersSize applied to any short chapter list *)

\* verses_count of the chapters offered: none, one, Al-Fatiha, Al-Baqara
UnitCounts == {0, 1, 7, 286}

RECURSIVE ChapterLists(_)
ChapterLists(n) ==
    IF n = 0 THEN {<<>>}
    ELSE ChapterLists(n - 1)
         \cup {Append(l, [verses_count |-> u]) :
                  l \in {m \in ChapterLists(n - 1) : Len(m) = n - 1}, u \in UnitCounts}

EstInit ==
    /\ HostIs(Host(TRUE, 10 * MB, 0, TRUE, TRUE, <<>>, {}))
    /\ UiIdle
    /\ svc = IdleFrame
    /\ req = NoRequest
    /\ loads = <<>>
    /\ \E chapters \in ChapterLists(MaxItems) :
          estim = [NoEstimate EXCEPT !.chapters = chapters]

EstApply ==
    /\ ~estim.applied
    /\ estim' = [estim EXCEPT !.applied = TRUE,
                              !.total = estimateMultipleChaptersSize(estim.chapters)]
    /\ UNCHANGED <<hostVars, svc, req, loads, uiVars>>

EstNext == EstApply

EstSpec == EstInit /\ [][EstNext]_vars

----------------------------------------------------------------------------
(* Claims about the estimate, checked under EstSpec *)

RECURSIVE SumOfEstimates(_)
SumOfEstimates(chapters) ==
    IF chapters = <<>> THEN 0
    ELSE estimateChapterSize(Head(chapters).verses_count) + SumOfEstimates(Tail(chapters))

\* C18: the estimate of a list is the sum of the estimates of its chapters: 0
\* for the empty list, estimateChapterSize(u1) + estimateChapterSize(u2) for two
\* chapters, and the estimate of a list cut in two anywhere is the sum of the
\* estimates of the two parts.
C18_EstimateAdditive ==
    estim.applied
    => LET chapters == estim.chapters
           n == Len(chapters)
       IN /\ estim.total = SumOfEstimates(chapters)
          /\ n = 0 => estim.total = 0
          /\ n = 2 => estim.total = estimateChapterSize(chapters[1].verses_count)
                                    + estimateChapterSize(chapters[2].verses_count)
          /\ \A j \in 0..n :
                estim.total = estimateMultipleChaptersSize(SubSeq(chapters, 1, j))
                              + estimateMultipleChaptersSize(SubSeq(chapters, j + 1, n))

\* Two chapters of 7 and 286 verses: 4500 + 144000.
C18_Witness ==
    /\ estim.applied
    /\ estim.chapters = <<[verses_count |-> 7], [verses_count |-> 286]>>
    /\ estim.total = 148500

----------------------------------------------------------------------------
(* RegSpec: loadDownloadedChapters on any persisted list and any set of     *)
(* valid payloads, with payloads evicted behind the component's back        *)

RegIds == 1..3

RECURSIVE ListsUpTo(_)
ListsUpTo(n) ==
    IF n = 0 THEN {<<>>}
    ELSE ListsUpTo(n - 1)
         \cup {Append(l, id) : l \in {m \in ListsUpTo(n - 1) : Len(m) = n - 1},
                                id \in RegIds}

RegInit ==
    /\ HostIs(Host(TRUE, 10 * MB, 0, TRUE, TRUE, <<>>, {}))
    /\ HarnessIdle
    /\ selectedChapters = <<>>
    /\ estimatedDownloadSize = 0
    /\ isOnline = TRUE
    /\ isDownloading = FALSE
    /\ storagePermissionOpen = FALSE
    /\ overallProgress = 0
    /\ downloadProgress = NoProgress
    /\ downloadedChapters = <<>>
    /\ calls = <<>>
    /\ registry \in ListsUpTo(MaxRegistry)
    /\ stored \in SUBSET RegIds

\* the effect at lines 68-74 (the dialog opens): loadDownloadedChapters runs.
\* The record keeps the list it loaded, the valid payloads at that moment, the
\* persisted and in-memory lists when it completed, and whether it called
\* updateDownloadedChapters.
RegLoad ==
    /\ Len(loads) < MaxLoads
    /\ LoadDownloadedChapters
    /\ loads' = Append(loads, [loaded |-> registry,
                               storedAt |-> stored,
                               persistedAfter |-> registry',
                               memoryAfter |-> downloadedChapters',
                               rewrote |-> NeedsRewrite(registry, Verified(registry))])
    /\ UNCHANGED <<hostVars, svc, req, estim, selectedChapters, estimatedDownloadSize,
                   isOnline, isDownloading, storagePermissionOpen, overallProgress,
                   downloadProgress, stored, calls>>

\* a stored payload is evicted or corrupted out-of-band
RegEvict ==
    /\ \E id \in stored : stored' = stored \ {id}
    /\ UNCHANGED <<hostVars, harnessVars, selectedChapters, estimatedDownloadSize,
                   isOnline, isDownloading, storagePermissionOpen, overallProgress,
                   downloadProgress, downloadedChapters, registry, calls>>

RegNext == RegLoad \/ RegEvict

RegSpec == RegInit /\ [][RegNext]_vars

----------------------------------------------------------------------------
(* Claims about reconciliation, checked under RegSpec *)

Ids(list) == {list[j] : j \in 1..Len(list)}

\* the loaded ids whose stored payload validates, in the order loaded
ValidOf(l) == SelectSeq(l.loaded, LAMBDA id : id \in l.storedAt)

C16_ReconcileIdempotent ==
    \A k \in 2..Len(loads) :
        loads[k].storedAt = loads[k - 1].storedAt
        => /\ loads[k].persistedAfter = loads[k - 1].persistedAfter
           /\ loads[k].memoryAfter = loads[k - 1].memoryAfter
           /\ loads[k].loaded = loads[k - 1].persistedAfter
           /\ ~loads[k].rewrote

\* Two runs in a row, the first of which had entries to drop.
C16_Witness ==
    /\ Len(loads) = 2
    /\ loads[1].rewrote
    /\ loads[1].persistedAfter # <<>>
    /\ loads[2].storedAt = loads[1].storedAt
    /\ ~loads[2].rewrote

----------------------------------------------------------------------------
(* Claims about the component, checked under Spec *)

CallIds == 1..Len(calls)

\* C1: a request whose space check is insufficient and whose
\* canDownloadWithCleanup returns canDownload = false is over: it never sets
\* isDownloading, never calls downloadMultipleChapters (no item fetched or
\* failed), never queries the permission, and reports insufficient space.
C1_CapacityAbort ==
    \A i \in CallIds :
        LET c == calls[i]
        IN (~c.spaceCheck.hasEnoughSpace /\ c.cdc.pc = "done" /\ ~c.cdc.result.canDownload)
           => /\ c.pc = "done"
              /\ ~c.started
              /\ c.next = 1 /\ c.completed = {} /\ c.failed = {}
              /\ ~c.permProbed
              /\ c.toast.title = "insufficient"

\* A request aborted for space after a cleanup pass that ran and a re-check.
C1_Witness ==
    \E i \in CallIds :
        LET c == calls[i]
        IN /\ ~c.spaceCheck.hasEnoughSpace
           /\ c.cdc.pc = "done" /\ ~c.cdc.result.canDownload
           /\ c.cdc.cleanups = 1 /\ Len(c.cdc.probes) = 2
           /\ c.est > 0
           /\ c.pc = "done"

\* C2: a request that went past the pre-flight (set isDownloading, called
\* downloadMultipleChapters) made its permission probe and that probe reported
\* persistent = true; a request whose permission probe reported persistent =
\* false is over, opened the permission dialog and fetched nothing.
C2_PermissionGate ==
    \A i \in CallIds :
        LET c == calls[i]
        IN /\ c.started => (c.permProbed /\ c.storageStatus.persistent)
           /\ c.pc \in {"downloading", "reload"} => c.started
           /\ (c.completed # {} \/ c.failed # {}) => c.started
           /\ (c.permProbed /\ ~c.storageStatus.persistent)
                 => /\ c.pc = "done"
                    /\ ~c.started
                    /\ c.opened
                    /\ c.completed = {} /\ c.failed = {}

\* Scenario C: enough space, durable storage not granted, the request is over.
C2_Witness ==
    \E i \in CallIds :
        LET c == calls[i]
        IN /\ c.spaceCheck.hasEnoughSpace
           /\ c.spaceCheck.availableBytes > c.est
           /\ c.permProbed /\ ~c.storageStatus.persistent
           /\ c.pc = "done"

\* C3: a handleDownload invocation whose closure has no chapter selected or is
\* offline is over as soon as it is made, with the matching toast: it makes no
\* storage probe, no cleanup, no permission query and no fetch, and the step that
\* makes it leaves the usage, the caches, the stored payloads, the registry and
\* the downloading flag as they were and deletes no localStorage key.
C3_FailFast ==
    [][\A i \in 1..Len(calls') :
          LET c == calls'[i]
          IN (Len(c.sel) = 0 \/ ~c.online)
             => /\ c.pc = "done"
                /\ c.probes = 0 /\ c.cdc.cleanups = 0 /\ Len(c.cdc.probes) = 0
                /\ ~c.permProbed /\ ~c.started /\ ~c.opened
                /\ c.next = 1 /\ c.completed = {} /\ c.failed = {}
                /\ c.toast.title = (IF Len(c.sel) = 0 THEN "noSelection" ELSE "offline")
                /\ i > Len(calls)
                      => /\ UNCHANGED <<quota, usage, caches, stored, registry,
                                        downloadedChapters, isDownloading,
                                        overallProgress, downloadProgress>>
                         /\ DOMAIN localStorage \subseteq DOMAIN localStorage'
      ]_vars

\* handleDownload was called offline with chapters selected (by the permission
\* dialog's callback: the download button is disabled then).
C3_Witness ==
    \E i \in CallIds :
        /\ ~calls[i].online
        /\ Len(calls[i].sel) > 0
        /\ calls[i].toast.title = "offline"

\* C4: at most one downloadMultipleChapters call is running at any time.
C4_AtMostOneBatch ==
    Cardinality({i \in CallIds : calls[i].pc = "downloading"}) <= 1

\* C5: when the batch of a request has ended with at least one failed item, the
\* request's toast is not the success toast and the count it reports is the
\* number of items completed.
C5_PartialFailureReported ==
    \A i \in CallIds :
        LET c == calls[i]
        IN (c.pc \in {"reload", "done"} /\ c.started /\ c.failed # {})
           => /\ c.toast.title # "success"
              /\ c.toast.count = Cardinality(c.completed)

\* C19: the shortage shown when a request is aborted for space is the bytes
\* still missing at that moment: the bytes required minus the available bytes of
\* the space check made after the cleanup.
C19_ShortageAtAbort ==
    \A i \in CallIds :
        LET c == calls[i]
        IN c.toast.title = "insufficient"
           => c.toast.bytes = c.est - c.cdc.newSpaceCheck.availableBytes

\* C21: whenever isDownloading is true, the finally block of a started batch
\* eventually runs, whether downloadMultipleChapters resolved or rejected:
\* isDownloading is false again, downloadProgress is null and overallProgress
\* is 0.
C21_DownloadingEventuallyCleared ==
    isDownloading ~> (/\ ~isDownloading
                      /\ downloadProgress = NoProgress
                      /\ overallProgress = 0)

\* One batch ended by a rejection and one by resolving, both over, the flag
\* cleared and the progress reset.
C21_Witness ==
    /\ \E i \in CallIds :
          calls[i].started /\ calls[i].pc = "done" /\ calls[i].toast.title = "error"
    /\ \E i \in CallIds :
          calls[i].started /\ calls[i].pc = "done" /\ calls[i].toast.title = "success"
    /\ ~isDownloading
    /\ downloadProgress = NoProgress
    /\ overallProgress = 0

====
